---- MODULE Spec2Model ----
(***************************************************************************)
(* Model of core/src/error.rs: the Error taxonomy, its factory             *)
(* constructors, the FunctionResolutionError builders, the From adapters   *)
(* and Error::no_matching_overload.                                        *)
(*                                                                         *)
(* A Rust String is modelled as a sequence of one-character strings, so    *)
(* that concatenation, line breaks and exact text are all observable.      *)
(* format! is modelled by what it does: the template is scanned left to    *)
(* right and every "{}" is replaced by the Display rendering of the next   *)
(* argument.                                                               *)
(***************************************************************************)
EXTENDS Integers, Sequences, FiniteSets, TLC

VARIABLES errors, call, result

vars == <<errors, call, result>>

----------------------------------------------------------------------------
(* Bounds of the model *)

\* the usize arguments are 0..MaxUsize and two longer numbers
MaxUsize == 5

\* largest source position (Pos is an opaque value of crate::ast)
MaxPos == 1

\* longest Vec<FunctionResolutionError> the caller accumulates
MaxErrors == 12

\* longest Vec<Pos> put in Error::MultipleErrors
MaxPositions == 3

----------------------------------------------------------------------------
(* Format templates, character by character *)

\* "Function {} not found"
T_function_not_found ==
    <<"F","u","n","c","t","i","o","n"," ","{","}"," ","n","o","t"," ","f","o",
      "u","n","d">>

\* "Member {} not found on {}"
T_member_not_found ==
    <<"M","e","m","b","e","r"," ","{","}"," ","n","o","t"," ","f","o","u","n",
      "d"," ","o","n"," ","{","}">>

\* "Can't find class {}"
T_class_not_found ==
    <<"C","a","n","'","t"," ","f","i","n","d"," ","c","l","a","s","s"," ","{",
      "}">>

\* "Cannot instantiate abstract class {}"
T_class_is_abstract ==
    <<"C","a","n","n","o","t"," ","i","n","s","t","a","n","t","i","a","t","e",
      " ","a","b","s","t","r","a","c","t"," ","c","l","a","s","s"," ","{","}">>

\* "Unresolved reference {}"
T_unresolved_reference ==
    <<"U","n","r","e","s","o","l","v","e","d"," ","r","e","f","e","r","e","n",
      "c","e"," ","{","}">>

\* "Unresolved type {}"
T_unresolved_type ==
    <<"U","n","r","e","s","o","l","v","e","d"," ","t","y","p","e"," ","{","}">>

\* "Unresolved import {}"
T_unresolved_import ==
    <<"U","n","r","e","s","o","l","v","e","d"," ","i","m","p","o","r","t"," ",
      "{","}">>

\* "Module {} has no members or does not exist"
T_unresolved_module ==
    <<"M","o","d","u","l","e"," ","{","}"," ","h","a","s"," ","n","o"," ","m",
      "e","m","b","e","r","s"," ","o","r"," ","d","o","e","s"," ","n","o","t",
      " ","e","x","i","s","t">>

\* "Invalid arguments for annotation"
T_invalid_annotation_args ==
    <<"I","n","v","a","l","i","d"," ","a","r","g","u","m","e","n","t","s"," ",
      "f","o","r"," ","a","n","n","o","t","a","t","i","o","n">>

\* "Type annotation required"
T_type_annotation_required ==
    <<"T","y","p","e"," ","a","n","n","o","t","a","t","i","o","n"," ","r","e",
      "q","u","i","r","e","d">>

\* "{} doesn't have members"
T_invalid_context ==
    <<"{","}"," ","d","o","e","s","n","'","t"," ","h","a","v","e"," ","m","e",
      "m","b","e","r","s">>

\* "{} is not supported on {}"
T_invalid_op ==
    <<"{","}"," ","i","s"," ","n","o","t"," ","s","u","p","p","o","r","t","e",
      "d"," ","o","n"," ","{","}">>

\* "Expected {} parameters for {}"
T_invalid_arg_count ==
    <<"E","x","p","e","c","t","e","d"," ","{","}"," ","p","a","r","a","m","e",
      "t","e","r","s"," ","f","o","r"," ","{","}">>

\* "Void value cannot be used"
T_void_cannot_be_used ==
    <<"V","o","i","d"," ","v","a","l","u","e"," ","c","a","n","n","o","t"," ",
      "b","e"," ","u","s","e","d">>

\* "Expected a value, found {}"
T_value_expected ==
    <<"E","x","p","e","c","t","e","d"," ","a"," ","v","a","l","u","e",","," ",
      "f","o","u","n","d"," ","{","}">>

\* "Function should return {}"
T_return_type_mismatch ==
    <<"F","u","n","c","t","i","o","n"," ","s","h","o","u","l","d"," ","r","e",
      "t","u","r","n"," ","{","}">>

\* "Can't coerce {} to {}"
T_type_error ==
    <<"C","a","n","'","t"," ","c","o","e","r","c","e"," ","{","}"," ","t","o",
      " ","{","}">>

\* "{}\n...and more"
T_and_more ==
    <<"{","}","\n",".",".",".","a","n","d"," ","m","o","r","e">>

\* "Arguments passed to {} do not match any of the overloads:{}"
T_no_matching_overload ==
    <<"A","r","g","u","m","e","n","t","s"," ","p","a","s","s","e","d"," ","t",
      "o"," ","{","}"," ","d","o"," ","n","o","t"," ","m","a","t","c","h"," ",
      "a","n","y"," ","o","f"," ","t","h","e"," ","o","v","e","r","l","o","a",
      "d","s",":","{","}">>

\* "Invalid intrinsic {} call: unexpected {}"
T_invalid_intrinsic ==
    <<"I","n","v","a","l","i","d"," ","i","n","t","r","i","n","s","i","c"," ",
      "{","}"," ","c","a","l","l",":"," ","u","n","e","x","p","e","c","t","e",
      "d"," ","{","}">>

\* "Method {} is not static"
T_expected_static_method ==
    <<"M","e","t","h","o","d"," ","{","}"," ","i","s"," ","n","o","t"," ","s",
      "t","a","t","i","c">>

\* "Method {} is static"
T_expected_non_static_method ==
    <<"M","e","t","h","o","d"," ","{","}"," ","i","s"," ","s","t","a","t","i",
      "c">>

\* "No 'this' in static context"
T_no_this_in_static_context ==
    <<"N","o"," ","'","t","h","i","s","'"," ","i","n"," ","s","t","a","t","i",
      "c"," ","c","o","n","t","e","x","t">>

\* "{} is unsupported"
T_unsupported ==
    <<"{","}"," ","i","s"," ","u","n","s","u","p","p","o","r","t","e","d">>

\* "Class with this name is already defined elsewhere"
T_class_redefinition ==
    <<"C","l","a","s","s"," ","w","i","t","h"," ","t","h","i","s"," ","n","a",
      "m","e"," ","i","s"," ","a","l","r","e","a","d","y"," ","d","e","f","i",
      "n","e","d"," ","e","l","s","e","w","h","e","r","e">>

\* "Invalid parameter at position {}: {}"
T_parameter_mismatch ==
    <<"I","n","v","a","l","i","d"," ","p","a","r","a","m","e","t","e","r"," ",
      "a","t"," ","p","o","s","i","t","i","o","n"," ","{","}",":"," ","{","}">>

\* "Return type {} does not match expected {}"
T_return_mismatch ==
    <<"R","e","t","u","r","n"," ","t","y","p","e"," ","{","}"," ","d","o","e",
      "s"," ","n","o","t"," ","m","a","t","c","h"," ","e","x","p","e","c","t",
      "e","d"," ","{","}">>

\* "Too many arguments, expected {} but got {}"
T_too_many_args ==
    <<"T","o","o"," ","m","a","n","y"," ","a","r","g","u","m","e","n","t","s",
      ","," ","e","x","p","e","c","t","e","d"," ","{","}"," ","b","u","t"," ",
      "g","o","t"," ","{","}">>

\* "Expected {}-{} parameters, given {}"
T_fre_invalid_arg_count ==
    <<"E","x","p","e","c","t","e","d"," ","{","}","-","{","}"," ","p","a","r",
      "a","m","e","t","e","r","s",","," ","g","i","v","e","n"," ","{","}">>

----------------------------------------------------------------------------
(* Rendering *)

Digits == <<"0", "1", "2", "3", "4", "5", "6", "7", "8", "9">>

\* Display for usize: the decimal digits, most significant first
RECURSIVE ToDecimal(_)
ToDecimal(n) ==
    IF n < 10 THEN <<Digits[n + 1]>>
    ELSE ToDecimal(n \div 10) \o <<Digits[(n % 10) + 1]>>

\* where the "{}" of a template are
Placeholders(template) ==
    { i \in 1..(Len(template) - 1) : template[i] = "{" /\ template[i + 1] = "}" }

\* format!(template, args...): the text up to the first "{}", the next
\* argument, then the rest of the template formatted with the other arguments
RECURSIVE Format(_, _)
Format(template, args) ==
    IF Placeholders(template) = {} THEN template
    ELSE LET i == CHOOSE j \in Placeholders(template) :
                      \A k \in Placeholders(template) : j <= k
         IN  SubSeq(template, 1, i - 1) \o Head(args)
                 \o Format(SubSeq(template, i + 2, Len(template)), Tail(args))

\* take with the limit off by one
take_one_more(s, n) ==
    SubSeq(s, 1, IF Len(s) < n + 1 THEN Len(s) ELSE n + 1)

\* Iterator::take(n) on a slice iterator: the first min(n, len) items
take(s, n) ==
    SubSeq(s, 1, IF Len(s) < n THEN Len(s) ELSE n)

\* the closure with its operands the other way round: "\n " + &str.0 + acc
RECURSIVE fold_prepend(_, _)
fold_prepend(iter, acc) ==
    IF iter = <<>> THEN acc
    ELSE fold_prepend(Tail(iter), <<"\n", " ">> \o Head(iter).text \o acc)

\* .fold(String::new(), |acc, str| acc + "\n " + &str.0), the accumulator
\* threaded left to right through the items
RECURSIVE fold(_, _)
fold(iter, acc) ==
    IF iter = <<>> THEN acc
    ELSE fold(Tail(iter), acc \o <<"\n", " ">> \o Head(iter).text)

----------------------------------------------------------------------------
(* The Error enum and FunctionResolutionError *)

IoError(err) == [tag |-> "IoError", err |-> err]

DecompileError(msg) == [tag |-> "DecompileError", msg |-> msg]

SyntaxError(msg, pos) == [tag |-> "SyntaxError", msg |-> msg, pos |-> pos]

\* the variant declared without its Pos
CompileError_no_pos(msg, pos) == [tag |-> "CompileError", msg |-> msg]

CompileError(msg, pos) == [tag |-> "CompileError", msg |-> msg, pos |-> pos]

TypeError(msg, pos) == [tag |-> "TypeError", msg |-> msg, pos |-> pos]

ResolutionError(msg, pos) == [tag |-> "ResolutionError", msg |-> msg, pos |-> pos]

PoolError(msg) == [tag |-> "PoolError", msg |-> msg]

FormatError(err) == [tag |-> "FormatError", err |-> err]

\* the positions stored last first
RECURSIVE Reversed(_)
Reversed(s) == IF s = <<>> THEN <<>> ELSE Reversed(Tail(s)) \o <<Head(s)>>

MultipleErrors_reversed(positions) ==
    [tag |-> "MultipleErrors", positions |-> Reversed(positions)]

MultipleErrors(positions) == [tag |-> "MultipleErrors", positions |-> positions]

\* the tuple struct FunctionResolutionError(String)
FunctionResolutionError(text) == [tag |-> "FunctionResolutionError", text |-> text]

\* io::Error::new(kind, payload)
io_Error_new(kind, payload) == [kind |-> kind, error |-> payload]

\* the unit struct fmt::Error
fmt_Error == [unit |-> "fmt::Error"]

----------------------------------------------------------------------------
(* FunctionResolutionError builders *)

parameter_mismatch(cause, index) ==
    LET message == Format(T_parameter_mismatch, <<ToDecimal(index), cause>>)
    IN  FunctionResolutionError(message)

\* the arguments substituted in parameter order
return_mismatch_swapped(expected, given) ==
    LET message == Format(T_return_mismatch, <<expected, given>>)
    IN  FunctionResolutionError(message)

return_mismatch(expected, given) ==
    LET message == Format(T_return_mismatch, <<given, expected>>)
    IN  FunctionResolutionError(message)

too_many_args(expected, got) ==
    LET error == Format(T_too_many_args, <<ToDecimal(expected), ToDecimal(got)>>)
    IN  FunctionResolutionError(error)

FunctionResolutionError_invalid_arg_count(received, min, max) ==
    LET message == Format(T_fre_invalid_arg_count,
                          <<ToDecimal(min), ToDecimal(max), ToDecimal(received)>>)
    IN  FunctionResolutionError(message)

----------------------------------------------------------------------------
(* Error constructors *)

eof(hint) == IoError(io_Error_new("UnexpectedEof", hint))

function_not_found(fun_name, pos) ==
    LET error == Format(T_function_not_found, <<fun_name>>)
    IN  CompileError(error, pos)

member_not_found(member, context, pos) ==
    LET error == Format(T_member_not_found, <<member, context>>)
    IN  CompileError(error, pos)

class_not_found(class_name, pos) ==
    LET error == Format(T_class_not_found, <<class_name>>)
    IN  CompileError(error, pos)

class_is_abstract(class_name, pos) ==
    LET error == Format(T_class_is_abstract, <<class_name>>)
    IN  CompileError(error, pos)

unresolved_reference(name, pos) ==
    LET error == Format(T_unresolved_reference, <<name>>)
    IN  CompileError(error, pos)

unresolved_type(name, pos) ==
    LET error == Format(T_unresolved_type, <<name>>)
    IN  CompileError(error, pos)

unresolved_import(import, pos) ==
    CompileError(Format(T_unresolved_import, <<import>>), pos)

unresolved_module(import, pos) ==
    CompileError(Format(T_unresolved_module, <<import>>), pos)

invalid_annotation_args(pos) ==
    CompileError(T_invalid_annotation_args, pos)

type_annotation_required(pos) ==
    CompileError(T_type_annotation_required, pos)

invalid_context(type_, pos) ==
    LET error == Format(T_invalid_context, <<type_>>)
    IN  CompileError(error, pos)

invalid_op(type_, op, pos) ==
    LET error == Format(T_invalid_op, <<op, type_>>)
    IN  CompileError(error, pos)

invalid_arg_count(name, expected, pos) ==
    LET error == Format(T_invalid_arg_count, <<ToDecimal(expected), name>>)
    IN  CompileError(error, pos)

void_cannot_be_used(pos) ==
    CompileError(T_void_cannot_be_used, pos)

value_expected(found, pos) ==
    CompileError(Format(T_value_expected, <<found>>), pos)

return_type_mismatch(type_, pos) ==
    LET error == Format(T_return_type_mismatch, <<type_>>)
    IN  CompileError(error, pos)

\* the coercion failure tagged as a generic compile error
type_error_as_compile(from, to, pos) ==
    LET error == Format(T_type_error, <<from, to>>)
    IN  CompileError(error, pos)

type_error(from, to, pos) ==
    LET error == Format(T_type_error, <<from, to>>)
    IN  TypeError(error, pos)

\* let max_errors = 10;
max_errors == 10

\* the result tagged as a generic compile error
no_matching_overload_as_compile(name, errs, pos) ==
    LET messages == fold(take(errs, max_errors), <<>>)
        detail == IF Len(errs) > max_errors
                  THEN Format(T_and_more, <<messages>>)
                  ELSE messages
        error == Format(T_no_matching_overload, <<name, detail>>)
    IN  CompileError(error, pos)

\* the fold run over every candidate, without take
no_matching_overload_untruncated(name, errs, pos) ==
    LET messages == fold(errs, <<>>)
        detail == IF Len(errs) > max_errors
                  THEN Format(T_and_more, <<messages>>)
                  ELSE messages
        error == Format(T_no_matching_overload, <<name, detail>>)
    IN  ResolutionError(error, pos)

no_matching_overload(name, errs, pos) ==
    LET messages == fold(take(errs, max_errors), <<>>)
        detail == IF Len(errs) > max_errors
                  THEN Format(T_and_more, <<messages>>)
                  ELSE messages
        error == Format(T_no_matching_overload, <<name, detail>>)
    IN  ResolutionError(error, pos)

invalid_intrinsic(name, type_, pos) ==
    LET err == Format(T_invalid_intrinsic, <<name, type_>>)
    IN  CompileError(err, pos)

expected_static_method(name, pos) ==
    LET err == Format(T_expected_static_method, <<name>>)
    IN  CompileError(err, pos)

expected_non_static_method(name, pos) ==
    LET err == Format(T_expected_non_static_method, <<name>>)
    IN  CompileError(err, pos)

no_this_in_static_context(pos) ==
    CompileError(T_no_this_in_static_context, pos)

unsupported(name, pos) ==
    LET err == Format(T_unsupported, <<name>>)
    IN  CompileError(err, pos)

class_redefinition(pos) ==
    LET err == T_class_redefinition
    IN  CompileError(err, pos)

\* the failure rebuilt from its text, its kind lost
from_io_Error_stringified(err) == IoError(io_Error_new("Other", err.error))

\* impl From<io::Error> for Error
from_io_Error(err) == IoError(err)

\* impl From<fmt::Error> for Error
from_fmt_Error(err) == FormatError(err)

----------------------------------------------------------------------------
(* Inputs *)

\* Display values used as function, member, class, module and type names
Names ==
    { <<"f","o","o">>, <<"b","a","r">> }

TypeNames ==
    { <<"I","n","t">>, <<"S","t","r","i","n","g">> }

\* cause: &str of parameter_mismatch; any text, a line break included (the
\* cause is the rendered message of another error)
Causes ==
    { <<"e","x","p","e","c","t","e","d"," ","I","n","t">>,
      <<"e","x","p","e","c","t","e","d","\n","I","n","t">> }

\* op: &str of invalid_op
Ops ==
    { <<"+">>, <<"a","s">> }

\* hint of eof, payload of an io::Error, message of a directly built variant
Texts ==
    { <<>>, <<"d","i","s","k">>,
      <<"u","n","e","x","p","e","c","t","e","d"," ","e","n","d"," ","o","f"," ",
        "f","i","l","e">> }

IoErrorKinds == {"NotFound", "UnexpectedEof", "Other"}

IoErrors == { io_Error_new(k, t) : k \in IoErrorKinds, t \in Texts }

Usizes == (0..MaxUsize) \cup {7, 10, 123}

Positions == 0..MaxPos

\* Vec<Pos> of at most MaxPositions elements
PositionLists == UNION { [1..n -> Positions] : n \in 0..MaxPositions }

\* rejection reasons put in the slice handed to no_matching_overload
Rejections ==
    { parameter_mismatch(<<"e","x","p","e","c","t","e","d","\n","I","n","t">>, 2),
      too_many_args(3, 5) }

\* every slice of at most n rejection reasons
ErrorSlices(n) == UNION { [1..k -> Rejections] : k \in 0..n }

----------------------------------------------------------------------------
(* State: errors is the slice of rejection reasons at hand, call the last   *)
(* call made with its arguments, result the value it returned. Every call   *)
(* records itself and its result and leaves the slice alone.                *)

NoCall == [fn |-> "none"]

NoResult == [tag |-> "none"]

Init ==
    /\ errors \in ErrorSlices(1)
    /\ call = NoCall
    /\ result = NoResult

InitAgg ==
    /\ errors \in ErrorSlices(MaxErrors)
    /\ call = NoCall
    /\ result = NoResult

----------------------------------------------------------------------------
(* One action per builder *)

ParameterMismatch ==
    \E cause \in Causes, index \in Usizes :
        /\ call' = [fn |-> "parameter_mismatch", cause |-> cause, index |-> index]
        /\ result' = parameter_mismatch(cause, index)
        /\ UNCHANGED errors

ReturnMismatch ==
    \E expected \in TypeNames, given \in TypeNames :
        /\ call' = [fn |-> "return_mismatch", expected |-> expected, given |-> given]
        /\ result' = return_mismatch(expected, given)
        /\ UNCHANGED errors

TooManyArgs ==
    \E expected \in Usizes, got \in Usizes :
        /\ call' = [fn |-> "too_many_args", expected |-> expected, got |-> got]
        /\ result' = too_many_args(expected, got)
        /\ UNCHANGED errors

FreInvalidArgCount ==
    \E received \in Usizes, min \in Usizes, max \in Usizes :
        /\ call' = [fn |-> "FunctionResolutionError::invalid_arg_count",
                     received |-> received, min |-> min, max |-> max]
        /\ result' = FunctionResolutionError_invalid_arg_count(received, min, max)
        /\ UNCHANGED errors

----------------------------------------------------------------------------
(* One action per Error constructor *)

Eof ==
    \E hint \in Texts :
        /\ call' = [fn |-> "eof", hint |-> hint]
        /\ result' = eof(hint)
        /\ UNCHANGED errors

FunctionNotFound ==
    \E n \in Names, pos \in Positions :
        /\ call' = [fn |-> "function_not_found", name |-> n, pos |-> pos]
        /\ result' = function_not_found(n, pos)
        /\ UNCHANGED errors

MemberNotFound ==
    \E m \in Names, c \in TypeNames, pos \in Positions :
        /\ call' = [fn |-> "member_not_found", member |-> m, context |-> c, pos |-> pos]
        /\ result' = member_not_found(m, c, pos)
        /\ UNCHANGED errors

ClassNotFound ==
    \E n \in TypeNames, pos \in Positions :
        /\ call' = [fn |-> "class_not_found", name |-> n, pos |-> pos]
        /\ result' = class_not_found(n, pos)
        /\ UNCHANGED errors

ClassIsAbstract ==
    \E n \in TypeNames, pos \in Positions :
        /\ call' = [fn |-> "class_is_abstract", name |-> n, pos |-> pos]
        /\ result' = class_is_abstract(n, pos)
        /\ UNCHANGED errors

UnresolvedReference ==
    \E n \in Names, pos \in Positions :
        /\ call' = [fn |-> "unresolved_reference", name |-> n, pos |-> pos]
        /\ result' = unresolved_reference(n, pos)
        /\ UNCHANGED errors

UnresolvedType ==
    \E n \in TypeNames, pos \in Positions :
        /\ call' = [fn |-> "unresolved_type", name |-> n, pos |-> pos]
        /\ result' = unresolved_type(n, pos)
        /\ UNCHANGED errors

UnresolvedImport ==
    \E n \in Names, pos \in Positions :
        /\ call' = [fn |-> "unresolved_import", name |-> n, pos |-> pos]
        /\ result' = unresolved_import(n, pos)
        /\ UNCHANGED errors

UnresolvedModule ==
    \E n \in Names, pos \in Positions :
        /\ call' = [fn |-> "unresolved_module", name |-> n, pos |-> pos]
        /\ result' = unresolved_module(n, pos)
        /\ UNCHANGED errors

InvalidAnnotationArgs ==
    \E pos \in Positions :
        /\ call' = [fn |-> "invalid_annotation_args", pos |-> pos]
        /\ result' = invalid_annotation_args(pos)
        /\ UNCHANGED errors

TypeAnnotationRequired ==
    \E pos \in Positions :
        /\ call' = [fn |-> "type_annotation_required", pos |-> pos]
        /\ result' = type_annotation_required(pos)
        /\ UNCHANGED errors

InvalidContext ==
    \E t \in TypeNames, pos \in Positions :
        /\ call' = [fn |-> "invalid_context", type_ |-> t, pos |-> pos]
        /\ result' = invalid_context(t, pos)
        /\ UNCHANGED errors

InvalidOp ==
    \E t \in TypeNames, op \in Ops, pos \in Positions :
        /\ call' = [fn |-> "invalid_op", type_ |-> t, op |-> op, pos |-> pos]
        /\ result' = invalid_op(t, op, pos)
        /\ UNCHANGED errors

InvalidArgCount ==
    \E n \in Names, expected \in Usizes, pos \in Positions :
        /\ call' = [fn |-> "invalid_arg_count", name |-> n, expected |-> expected, pos |-> pos]
        /\ result' = invalid_arg_count(n, expected, pos)
        /\ UNCHANGED errors

VoidCannotBeUsed ==
    \E pos \in Positions :
        /\ call' = [fn |-> "void_cannot_be_used", pos |-> pos]
        /\ result' = void_cannot_be_used(pos)
        /\ UNCHANGED errors

ValueExpected ==
    \E found \in TypeNames, pos \in Positions :
        /\ call' = [fn |-> "value_expected", found |-> found, pos |-> pos]
        /\ result' = value_expected(found, pos)
        /\ UNCHANGED errors

ReturnTypeMismatch ==
    \E t \in TypeNames, pos \in Positions :
        /\ call' = [fn |-> "return_type_mismatch", type_ |-> t, pos |-> pos]
        /\ result' = return_type_mismatch(t, pos)
        /\ UNCHANGED errors

TypeErrorCall ==
    \E from \in TypeNames, to \in TypeNames, pos \in Positions :
        /\ call' = [fn |-> "type_error", from |-> from, to |-> to, pos |-> pos]
        /\ result' = type_error(from, to, pos)
        /\ UNCHANGED errors

NoMatchingOverload ==
    \E n \in Names, pos \in Positions :
        /\ call' = [fn |-> "no_matching_overload", name |-> n, pos |-> pos]
        /\ result' = no_matching_overload(n, errors, pos)
        /\ UNCHANGED errors

InvalidIntrinsic ==
    \E n \in Names, t \in TypeNames, pos \in Positions :
        /\ call' = [fn |-> "invalid_intrinsic", name |-> n, type_ |-> t, pos |-> pos]
        /\ result' = invalid_intrinsic(n, t, pos)
        /\ UNCHANGED errors

ExpectedStaticMethod ==
    \E n \in Names, pos \in Positions :
        /\ call' = [fn |-> "expected_static_method", name |-> n, pos |-> pos]
        /\ result' = expected_static_method(n, pos)
        /\ UNCHANGED errors

ExpectedNonStaticMethod ==
    \E n \in Names, pos \in Positions :
        /\ call' = [fn |-> "expected_non_static_method", name |-> n, pos |-> pos]
        /\ result' = expected_non_static_method(n, pos)
        /\ UNCHANGED errors

NoThisInStaticContext ==
    \E pos \in Positions :
        /\ call' = [fn |-> "no_this_in_static_context", pos |-> pos]
        /\ result' = no_this_in_static_context(pos)
        /\ UNCHANGED errors

Unsupported ==
    \E n \in Names, pos \in Positions :
        /\ call' = [fn |-> "unsupported", name |-> n, pos |-> pos]
        /\ result' = unsupported(n, pos)
        /\ UNCHANGED errors

ClassRedefinition ==
    \E pos \in Positions :
        /\ call' = [fn |-> "class_redefinition", pos |-> pos]
        /\ result' = class_redefinition(pos)
        /\ UNCHANGED errors

----------------------------------------------------------------------------
(* Adapters, and the variants that have no factory and are built directly *)

FromIoError ==
    \E err \in IoErrors :
        /\ call' = [fn |-> "from_io_Error", err |-> err]
        /\ result' = from_io_Error(err)
        /\ UNCHANGED errors

FromFmtError ==
    /\ call' = [fn |-> "from_fmt_Error", err |-> fmt_Error]
    /\ result' = from_fmt_Error(fmt_Error)
    /\ UNCHANGED errors

BuildDecompileError ==
    \E msg \in Texts :
        /\ call' = [fn |-> "DecompileError", msg |-> msg]
        /\ result' = DecompileError(msg)
        /\ UNCHANGED errors

BuildSyntaxError ==
    \E msg \in Texts, pos \in Positions :
        /\ call' = [fn |-> "SyntaxError", msg |-> msg, pos |-> pos]
        /\ result' = SyntaxError(msg, pos)
        /\ UNCHANGED errors

BuildPoolError ==
    \E msg \in Texts :
        /\ call' = [fn |-> "PoolError", msg |-> msg]
        /\ result' = PoolError(msg)
        /\ UNCHANGED errors

BuildMultipleErrors ==
    \E positions \in PositionLists :
        /\ call' = [fn |-> "MultipleErrors", positions |-> positions]
        /\ result' = MultipleErrors(positions)
        /\ UNCHANGED errors

----------------------------------------------------------------------------
(* Specifications *)

Next ==
    \/ ParameterMismatch
    \/ ReturnMismatch
    \/ TooManyArgs
    \/ FreInvalidArgCount
    \/ Eof
    \/ FunctionNotFound
    \/ MemberNotFound
    \/ ClassNotFound
    \/ ClassIsAbstract
    \/ UnresolvedReference
    \/ UnresolvedType
    \/ UnresolvedImport
    \/ UnresolvedModule
    \/ InvalidAnnotationArgs
    \/ TypeAnnotationRequired
    \/ InvalidContext
    \/ InvalidOp
    \/ InvalidArgCount
    \/ VoidCannotBeUsed
    \/ ValueExpected
    \/ ReturnTypeMismatch
    \/ TypeErrorCall
    \/ NoMatchingOverload
    \/ InvalidIntrinsic
    \/ ExpectedStaticMethod
    \/ ExpectedNonStaticMethod
    \/ NoThisInStaticContext
    \/ Unsupported
    \/ ClassRedefinition
    \/ FromIoError
    \/ FromFmtError
    \/ BuildDecompileError
    \/ BuildSyntaxError
    \/ BuildPoolError
    \/ BuildMultipleErrors

\* every constructor, builder and adapter, over a slice of at most one reason
Spec == Init /\ [][Next]_vars

NextAgg == NoMatchingOverload

\* no_matching_overload over every slice of at most MaxErrors reasons
SpecAgg == InitAgg /\ [][NextAgg]_vars

----------------------------------------------------------------------------
(* Expected texts, written out independently of the templates *)

\* "Arguments passed to "
ArgumentsPassedTo ==
    <<"A","r","g","u","m","e","n","t","s"," ","p","a","s","s","e","d"," ","t",
      "o"," ">>

\* " do not match any of the overloads:"
DoNotMatch ==
    <<" ","d","o"," ","n","o","t"," ","m","a","t","c","h"," ","a","n","y"," ",
      "o","f"," ","t","h","e"," ","o","v","e","r","l","o","a","d","s",":">>

\* "\n...and more"
AndMoreMarker ==
    <<"\n",".",".",".","a","n","d"," ","m","o","r","e">>

\* "Arguments passed to foo do not match any of the overloads:"
HeaderFoo ==
    <<"A","r","g","u","m","e","n","t","s"," ","p","a","s","s","e","d"," ","t",
      "o"," ","f","o","o"," ","d","o"," ","n","o","t"," ","m","a","t","c","h",
      " ","a","n","y"," ","o","f"," ","t","h","e"," ","o","v","e","r","l","o",
      "a","d","s",":">>

\* "Invalid parameter at position "
InvalidParameterAt ==
    <<"I","n","v","a","l","i","d"," ","p","a","r","a","m","e","t","e","r"," ",
      "a","t"," ","p","o","s","i","t","i","o","n"," ">>

\* "Return type "
ReturnType ==
    <<"R","e","t","u","r","n"," ","t","y","p","e"," ">>

\* " does not match expected "
DoesNotMatchExpected ==
    <<" ","d","o","e","s"," ","n","o","t"," ","m","a","t","c","h"," ","e","x",
      "p","e","c","t","e","d"," ">>

\* "Too many arguments, expected "
TooManyExpected ==
    <<"T","o","o"," ","m","a","n","y"," ","a","r","g","u","m","e","n","t","s",
      ","," ","e","x","p","e","c","t","e","d"," ">>

\* " but got "
ButGot ==
    <<" ","b","u","t"," ","g","o","t"," ">>

\* "Expected "
ExpectedWord ==
    <<"E","x","p","e","c","t","e","d"," ">>

\* " parameters, given "
ParametersGiven ==
    <<" ","p","a","r","a","m","e","t","e","r","s",","," ","g","i","v","e","n",
      " ">>

\* "Invalid parameter at position 2: expected Int"
ExampleParameterMismatch ==
    <<"I","n","v","a","l","i","d"," ","p","a","r","a","m","e","t","e","r"," ",
      "a","t"," ","p","o","s","i","t","i","o","n"," ","2",":"," ","e","x","p",
      "e","c","t","e","d"," ","I","n","t">>

\* "Return type String does not match expected Int"
ExampleReturnMismatch ==
    <<"R","e","t","u","r","n"," ","t","y","p","e"," ","S","t","r","i","n","g",
      " ","d","o","e","s"," ","n","o","t"," ","m","a","t","c","h"," ","e","x",
      "p","e","c","t","e","d"," ","I","n","t">>

\* "Too many arguments, expected 3 but got 5"
ExampleTooManyArgs ==
    <<"T","o","o"," ","m","a","n","y"," ","a","r","g","u","m","e","n","t","s",
      ","," ","e","x","p","e","c","t","e","d"," ","3"," ","b","u","t"," ","g",
      "o","t"," ","5">>

\* "Too many arguments, expected 10 but got 123"
ExampleTooManyArgsLong ==
    <<"T","o","o"," ","m","a","n","y"," ","a","r","g","u","m","e","n","t","s",
      ","," ","e","x","p","e","c","t","e","d"," ","1","0"," ","b","u","t"," ",
      "g","o","t"," ","1","2","3">>

\* "Expected 2-4 parameters, given 7"
ExampleInvalidArgCount ==
    <<"E","x","p","e","c","t","e","d"," ","2","-","4"," ","p","a","r","a","m",
      "e","t","e","r","s",","," ","g","i","v","e","n"," ","7">>

----------------------------------------------------------------------------
(* Vocabulary of the properties *)

IsNoMatchingOverload == call.fn = "no_matching_overload"

\* number of candidates handed to the aggregator
N == Len(errors)

MinN == IF N < 10 THEN N ELSE 10

\* the header for the name of the last call
Header == ArgumentsPassedTo \o call.name \o DoNotMatch

\* the part of the message after the header
Detail == SubSeq(result.msg, Len(Header) + 1, Len(result.msg))

\* where the i-th entry starts in Detail, counted from 0
RECURSIVE EntryOffset(_)
EntryOffset(i) ==
    IF i = 1 THEN 0 ELSE EntryOffset(i - 1) + 2 + Len(errors[i - 1].text)

\* line breaks of a text
LineBreaks(text) == Cardinality({ i \in 1..Len(text) : text[i] = "\n" })

\* line breaks inside the texts of the first k candidates
RECURSIVE InnerLineBreaks(_)
InnerLineBreaks(k) ==
    IF k = 0 THEN 0 ELSE InnerLineBreaks(k - 1) + LineBreaks(errors[k].text)

\* candidates 1..k, each on its own prefixed line
RECURSIVE PrefixedLines(_)
PrefixedLines(k) ==
    IF k = 0 THEN <<>>
    ELSE PrefixedLines(k - 1) \o <<"\n", " ">> \o errors[k].text

\* the slices that agree with errors on the first ten candidates and go on
Continuations ==
    { SubSeq(errors, 1, 10) \o tail : tail \in ErrorSlices(MaxErrors - 10) \ {<<>>} }

MessageAndPos == {"tag", "msg", "pos"}

\* a rejection reason whose text contains a line break
WithLineBreak ==
    parameter_mismatch(<<"e","x","p","e","c","t","e","d","\n","I","n","t">>, 2)

\* twelve candidates: the second and the eleventh are too_many_args(3, 5),
\* all others WithLineBreak
TwelveCandidates ==
    [i \in 1..12 |-> IF i \in {2, 11} THEN too_many_args(3, 5) ELSE WithLineBreak]

Foo == <<"f","o","o">>

CompileConstructors ==
    { "function_not_found", "member_not_found", "class_not_found",
      "class_is_abstract", "unresolved_reference", "unresolved_type",
      "unresolved_import", "unresolved_module", "invalid_annotation_args",
      "type_annotation_required", "invalid_context", "invalid_op",
      "invalid_arg_count", "void_cannot_be_used", "value_expected",
      "return_type_mismatch", "invalid_intrinsic", "expected_static_method",
      "expected_non_static_method", "no_this_in_static_context", "unsupported",
      "class_redefinition" }

----------------------------------------------------------------------------
(* Properties *)

\* C1: after no_matching_overload over N candidates the block after the
\* header is exactly min(N,10) entries; the i-th entry is a line break, one
\* space and the exact text of the i-th candidate of the input, in input
\* order; the block is followed by "\n...and more" exactly when N > 10 and
\* by nothing otherwise.
C1_BlockIsFirstTenInOrder ==
    IsNoMatchingOverload =>
        /\ \A i \in 1..MinN :
              SubSeq(Detail, EntryOffset(i) + 1, EntryOffset(i + 1))
                  = <<"\n", " ">> \o errors[i].text
        /\ N > 10 =>
              SubSeq(Detail, EntryOffset(MinN + 1) + 1, Len(Detail)) = AndMoreMarker
        /\ N <= 10 => Len(Detail) = EntryOffset(MinN + 1)

C1_Witness ==
    /\ IsNoMatchingOverload
    /\ call.name = Foo
    /\ call.pos = 0
    /\ errors = TwelveCandidates
    /\ errors[1] # errors[2]
    /\ errors[1] = errors[3]

\* C2: for N > 10 the message is the header, the first ten candidates each
\* on its own prefixed line, then "\n...and more"; every slice of more than
\* ten candidates that agrees on the first ten gives the identical result
\* for the same name and position.
C2_TailNeverAppears ==
    (IsNoMatchingOverload /\ N > 10) =>
        /\ result.msg = Header \o PrefixedLines(10) \o AndMoreMarker
        /\ \A other \in Continuations :
              no_matching_overload(call.name, other, call.pos) = result

C2_Witness ==
    /\ IsNoMatchingOverload
    /\ call.name = Foo
    /\ call.pos = 1
    /\ errors = TwelveCandidates
    /\ errors[11] # errors[12]
    /\ \E other \in Continuations : other # errors

\* C3: no_matching_overload can be called on every slice, the empty one
\* included, and returns a ResolutionError holding the supplied position
\* and the message "Arguments passed to <name> do not match any of the
\* overloads:" followed by the block; for no candidates and name "foo" the
\* message is exactly the header for foo.
C3_TotalResolutionAtCallSite ==
    /\ call = NoCall =>
          \A n \in Names, pos \in Positions :
              no_matching_overload(n, errors, pos).tag = "ResolutionError"
    /\ IsNoMatchingOverload =>
          /\ result.tag = "ResolutionError"
          /\ DOMAIN result = MessageAndPos
          /\ result.pos = call.pos
          /\ Len(result.msg) >= Len(Header)
          /\ SubSeq(result.msg, 1, Len(Header)) = Header
          /\ Detail = PrefixedLines(MinN) \o (IF N > 10 THEN AndMoreMarker ELSE <<>>)
          /\ (N = 0 /\ call.name = Foo) => result.msg = HeaderFoo

C3_Witness ==
    /\ IsNoMatchingOverload
    /\ N = 0
    /\ call.name = Foo
    /\ call.pos = 1
    /\ result.msg = HeaderFoo

\* C4 as stated: whatever the candidates' texts, the part of the message
\* after the header has at most 11 line breaks.
C4_AtMostElevenLineBreaks ==
    IsNoMatchingOverload => LineBreaks(Detail) <= 11

\* C4 amended: the part after the header has the line breaks of at most ten
\* entries and one marker, plus the line breaks that the texts of the first
\* ten candidates contain themselves; none come from later candidates.
C4_BoundedByFirstTen ==
    IsNoMatchingOverload =>
        /\ LineBreaks(Detail) <= 11 + InnerLineBreaks(MinN)
        /\ InnerLineBreaks(MinN) = 0 => LineBreaks(Detail) <= 11

C4_Witness ==
    /\ IsNoMatchingOverload
    /\ call.name = <<"b","a","r">>
    /\ call.pos = 0
    /\ errors = TwelveCandidates
    /\ InnerLineBreaks(10) = 9
    /\ LineBreaks(Detail) = 20

\* C5 as stated: every Decompile, Syntax, Compile, Type, Resolution and
\* Pool error holds one message and one position.
C5_MessageAndPosition ==
    result.tag \in {"DecompileError", "SyntaxError", "CompileError",
                    "TypeError", "ResolutionError", "PoolError"}
        => DOMAIN result = MessageAndPos

\* C5 amended: every Syntax, Compile, Type and Resolution error holds one
\* message and one position; every Decompile and Pool error holds one
\* message and no position.
C5_MessageAndPositionWhereDeclared ==
    /\ result.tag \in {"SyntaxError", "CompileError", "TypeError", "ResolutionError"}
          => /\ DOMAIN result = MessageAndPos
             /\ result.pos \in Positions
    /\ result.tag \in {"DecompileError", "PoolError"}
          => DOMAIN result = {"tag", "msg"}

C5_Witness ==
    /\ errors = <<>>
    /\ call.fn = "unsupported"
    /\ call.name = Foo
    /\ result.tag = "CompileError"
    /\ result.pos = 1

\* C6: each builder returns exactly its template with the arguments
\* substituted, and holds nothing but that text.
C6_BuilderTexts ==
    /\ call.fn = "parameter_mismatch" =>
          /\ DOMAIN result = {"tag", "text"}
          /\ result.text = InvalidParameterAt \o ToDecimal(call.index)
                               \o <<":", " ">> \o call.cause
          /\ (call.index = 2 /\ call.cause = <<"e","x","p","e","c","t","e","d"," ","I","n","t">>)
                => result.text = ExampleParameterMismatch
    /\ call.fn = "return_mismatch" =>
          /\ DOMAIN result = {"tag", "text"}
          /\ result.text = ReturnType \o call.given
                               \o DoesNotMatchExpected \o call.expected
          /\ (call.expected = <<"I","n","t">> /\ call.given = <<"S","t","r","i","n","g">>)
                => result.text = ExampleReturnMismatch
    /\ call.fn = "too_many_args" =>
          /\ DOMAIN result = {"tag", "text"}
          /\ result.text = TooManyExpected \o ToDecimal(call.expected)
                               \o ButGot \o ToDecimal(call.got)
          /\ (call.expected = 3 /\ call.got = 5)
                => result.text = ExampleTooManyArgs
          /\ (call.expected = 10 /\ call.got = 123)
                => result.text = ExampleTooManyArgsLong
    /\ call.fn = "FunctionResolutionError::invalid_arg_count" =>
          /\ DOMAIN result = {"tag", "text"}
          /\ result.text = ExpectedWord \o ToDecimal(call.min) \o <<"-">>
                               \o ToDecimal(call.max) \o ParametersGiven
                               \o ToDecimal(call.received)
          /\ (call.received = 7 /\ call.min = 2 /\ call.max = 4)
                => result.text = ExampleInvalidArgCount

C6_Witness ==
    /\ errors = <<>>
    /\ call.fn = "return_mismatch"
    /\ call.expected = <<"I","n","t">>
    /\ call.given = <<"S","t","r","i","n","g">>
    /\ result.text = ExampleReturnMismatch

\* C7: the adapters wrap losslessly: From<io::Error> gives an IoError and
\* From<fmt::Error> a FormatError whose payload is the value that was
\* passed in, every field of it unchanged.
C7_WrappingRoundTrips ==
    /\ call.fn = "from_io_Error" =>
          /\ result.tag = "IoError"
          /\ DOMAIN result = {"tag", "err"}
          /\ result.err = call.err
    /\ call.fn = "from_fmt_Error" =>
          /\ result.tag = "FormatError"
          /\ DOMAIN result = {"tag", "err"}
          /\ result.err = call.err

C7_Witness ==
    /\ errors = <<>>
    /\ call.fn = "from_io_Error"
    /\ call.err.kind = "NotFound"
    /\ call.err.error = <<"d","i","s","k">>
    /\ result.tag = "IoError"

\* C9: a ResolutionError comes from no_matching_overload and from no other
\* constructor, a TypeError from type_error and from no other, and every
\* other constructor of a semantic violation returns a CompileError; each
\* holds the position it was given.
C9_CategoryFixedByConstructor ==
    /\ result.tag = "ResolutionError" <=> call.fn = "no_matching_overload"
    /\ result.tag = "TypeError" <=> call.fn = "type_error"
    /\ call.fn \in CompileConstructors => result.tag = "CompileError"
    /\ call.fn \in CompileConstructors \cup {"type_error", "no_matching_overload"}
          => result.pos = call.pos

C9_Witness ==
    /\ errors = <<>>
    /\ call.fn = "type_error"
    /\ call.from = <<"S","t","r","i","n","g">>
    /\ call.to = <<"I","n","t">>
    /\ call.pos = 1
    /\ result.tag = "TypeError"

\* C10 as stated: every Multiple error holds a list of one or more
\* positions.
C10_OneOrMorePositions ==
    result.tag = "MultipleErrors" => Len(result.positions) >= 1

\* C10 amended: a Multiple error holds an ordered list of zero or more
\* positions and no message; the list is the one it was built with, in the
\* same order.
C10_PositionsPreserved ==
    result.tag = "MultipleErrors" =>
        /\ DOMAIN result = {"tag", "positions"}
        /\ Len(result.positions) = Len(call.positions)
        /\ \A i \in 1..Len(call.positions) : result.positions[i] = call.positions[i]

C10_Witness ==
    /\ errors = <<>>
    /\ result.tag = "MultipleErrors"
    /\ call.positions = <<0, 1, 1>>
    /\ result.positions = <<0, 1, 1>>

====
